---- MODULE Spec2Model ----
(***************************************************************************)
(* Oscillometric blood pressure monitor (src/automatic_bp_cuff.ino).       *)
(*                                                                         *)
(* One poll of loop() is one action.  The sketch's float values are kept   *)
(* as exact scaled integers:                                               *)
(*   - an oscillometric value  adc * (5.0 / 1023.0)  volts is the integer  *)
(*     5 * adc  (unit: 1/1023 V); amplitudes share the unit;               *)
(*   - a pressure  volts * 50.0  mmHg is the integer  500 * adc  (unit:    *)
(*     1/2046 mmHg), so that (maxPressure + minPressure) / 2.0 is exact;   *)
(*   - 0.55 and 0.75 are 11/20 and 15/20: the searches compare             *)
(*     differences multiplied by 20.                                       *)
(* Float rounding is not modelled.  unsigned long is 32 bits wide and      *)
(* unsigned int 16 bits wide (AVR boards); a 32-bit value is the record    *)
(* [hi, lo] of its two 16-bit halves.  All millis() calls of one poll      *)
(* return the same value.                                                  *)
(***************************************************************************)
EXTENDS Integers, Sequences, FiniteSets, TLC

VARIABLES
  \* ---- the sketch's globals
  pumpOn, thresholdReached, readings, oscillometricBuffer, pressureBuffer,
  bufferIndex, secondCounter, maxVal, minVal, maxPressure, minPressure,
  maxAmplitude, maxAmplitudeIndex, currentState, stateTimer, sampleTimer,
  oscillationState, prevOscillometric, numPeaks, pulseStart, pulseEnd,
  \* ---- outputs
  transistorPin,   \* level last written to the pump transistor
  report,          \* what calculateBloodPressure printed last
  calcCalls,       \* number of calls of calculateBloodPressure
  \* ---- environment and history
  now,             \* last value returned by millis()
  wave,            \* shape of the oscillometric waveform being sampled
  nSamples,        \* number of samples processed so far
  block,           \* the samples processed since the last multiple of WINDOW_SIZE
  expected,        \* Readings recomputed from each completed block
  deviations,      \* deviations from the nominal run used so far
  donePolls,       \* polls taken in COMPLETE
  stamped,         \* clock and sample number of each write of pulseStart, pulseEnd
  lastRead         \* button and pressure input read by the last poll

progVars == <<pumpOn, thresholdReached, readings, oscillometricBuffer,
              pressureBuffer, bufferIndex, secondCounter, maxVal, minVal,
              maxPressure, minPressure, maxAmplitude, maxAmplitudeIndex,
              currentState, stateTimer, sampleTimer, oscillationState,
              prevOscillometric, numPeaks, pulseStart, pulseEnd>>
outVars == <<transistorPin, report, calcCalls>>
envVars == <<now, wave, nSamples, block, expected, deviations, donePolls,
             stamped, lastRead>>
vars == <<progVars, outVars, envVars>>

(***************************************************************************)
(* Program constants                                                       *)
(***************************************************************************)
SAMPLE_RATE == 30
WINDOW_SIZE == 30
TOTAL_SECONDS == 30
VOLTS_TO_MMHG == 50
INITIAL_DELAY == 1000
SAMPLE_INTERVAL == 1000 \div SAMPLE_RATE
PUMP_CUTOFF == 635
COMPLETE_DELAY == 3000
ADC_FULL_SCALE == 1023
ADC_VOLTS == 5
SENTINEL == 999
PEAK_START == 15
PEAK_END == 16
UINT_MOD == 65536
FRAC_DEN == 20
SYSTOLIC_NUM == 11
DIASTOLIC_NUM == 15
HALF == 2

WAITING_FOR_SIGNAL == "WAITING_FOR_SIGNAL"
DELAY_AFTER_THRESHOLD == "DELAY_AFTER_THRESHOLD"
PROCESSING_SIGNAL == "PROCESSING_SIGNAL"
COMPLETE == "COMPLETE"
RISING_STATE == "RISING_STATE"
FALLING_STATE == "FALLING_STATE"
LOW == "LOW"
HIGH == "HIGH"

(***************************************************************************)
(* Bounds of the model                                                     *)
(***************************************************************************)
\* deviations from the nominal run (a late or early poll, a change of
\* waveform, a button press after the threshold) one behaviour may hold
MaxDeviations == 1
\* last window at whose start the waveform may change
MaxChangeWindow == 3
\* polls modelled in COMPLETE (each blocks for COMPLETE_DELAY)
MaxDonePolls == 2
\* clock steps of an early and of a late poll
DtEarly == 20
DtLate == 100
\* pressure ADC readings offered outside sampling: below and above the cutoff
CuffBelow == 600
CuffAbove == 700
\* pressure ADC reading at the first processed sample; it deflates one
\* count per processed sample
CuffTop == 1000
\* oscillometric ADC readings: the baseline and the two pulse heights
OscBase == 512
OscSmall == 1
OscBig == 4

Waves == {"flat", "small", "big"}
Indices == 0 .. (TOTAL_SECONDS - 1)

(***************************************************************************)
(* Unit conversions (loop, "Read signals")                                 *)
(***************************************************************************)
Volts(adc) == ADC_VOLTS * adc
MmHg(adc) == HALF * Volts(adc) * VOLTS_TO_MMHG
InitMaxVal == (0 - SENTINEL) * ADC_FULL_SCALE
InitMinVal == SENTINEL * ADC_FULL_SCALE
Abs(x) == IF x > 0 THEN x ELSE 0 - x

(***************************************************************************)
(* unsigned long arithmetic (millis(), stateTimer, sampleTimer)            *)
(***************************************************************************)
ULong(hi, lo) == [hi |-> hi, lo |-> lo]
\* t + d, for 0 <= d < UINT_MOD
ULongPlus(t, d) ==
  ULong((t.hi + ((t.lo + d) \div UINT_MOD)) % UINT_MOD, (t.lo + d) % UINT_MOD)
\* t - since
ULongMinus(t, since) ==
  ULong((t.hi - since.hi - (IF t.lo < since.lo THEN 1 ELSE 0)) % UINT_MOD,
        (t.lo - since.lo) % UINT_MOD)
\* e >= n, for 0 <= n < UINT_MOD
ULongAtLeast(e, n) == e.hi > 0 \/ e.lo >= n
\* conversion to unsigned int
ULongToUInt(t) == t.lo

(***************************************************************************)
(* The sampled signal.  Samples read by polls that process nothing are     *)
(* discarded by the sketch, so the signal is indexed by the number of      *)
(* samples processed.                                                      *)
(***************************************************************************)
OscAt(w, n) ==
  IF w = "flat" \/ n % 2 = 1 THEN OscBase
  ELSE IF w = "small" THEN OscBase + OscSmall ELSE OscBase + OscBig
CuffAt(n) == IF CuffTop > n THEN CuffTop - n ELSE 0

(***************************************************************************)
(* findPressureAtAmplitude.  target is the threshold times FRAC_DEN.  The  *)
(* loops return the index selected and every index of readings[] read.     *)
(* Each iteration's result is bound by a set constructor so that it is     *)
(* evaluated once.                                                         *)
(***************************************************************************)
AmplitudeAt(rd, i) == IF i \in DOMAIN rd THEN rd[i].amplitude ELSE 0
PressureAt(rd, i) == IF i \in DOMAIN rd THEN rd[i].pressure ELSE 0

Closer_OrEqual(rd, target, i, best) ==
  LET diff == Abs(FRAC_DEN * AmplitudeAt(rd, i) - target)
  IN  IF diff <= best.diff
      THEN [diff |-> diff, index |-> i, reads |-> best.reads \cup {i}]
      ELSE [best EXCEPT !.reads = @ \cup {i}]

Closer(rd, target, i, best) ==
  LET diff == Abs(FRAC_DEN * AmplitudeAt(rd, i) - target)
  IN  IF diff < best.diff
      THEN [diff |-> diff, index |-> i, reads |-> best.reads \cup {i}]
      ELSE [best EXCEPT !.reads = @ \cup {i}]

BackwardContinues_SkipsZero(i) == i > 0
BackwardContinues(i) == i >= 0
ForwardContinues_Inclusive(i) == i <= TOTAL_SECONDS
ForwardContinues(i) == i < TOTAL_SECONDS

RECURSIVE SearchBackward(_, _, _, _)
SearchBackward(rd, target, i, best) ==
  IF BackwardContinues(i)
  THEN CHOOSE r \in {SearchBackward(rd, target, i - 1, b) :
                        b \in {Closer(rd, target, i, best)}} : TRUE
  ELSE best

RECURSIVE SearchForward(_, _, _, _)
SearchForward(rd, target, i, best) ==
  IF ForwardContinues(i)
  THEN CHOOSE r \in {SearchForward(rd, target, i + 1, b) :
                        b \in {Closer(rd, target, i, best)}} : TRUE
  ELSE best

SearchStart(mai) ==
  [diff |-> SENTINEL * ADC_FULL_SCALE * FRAC_DEN, index |-> mai, reads |-> {}]

findIndexAtAmplitude(rd, mai, target, searchBackward) ==
  LET best == IF searchBackward
              THEN SearchBackward(rd, target, mai, SearchStart(mai))
              ELSE SearchForward(rd, target, mai, SearchStart(mai))
  IN  [index |-> best.index, reads |-> best.reads \cup {best.index}]

findPressureAtAmplitude(rd, mai, target, searchBackward) ==
  PressureAt(rd, findIndexAtAmplitude(rd, mai, target, searchBackward).index)

(***************************************************************************)
(* calculateBloodPressure: what it prints, from the globals it reads.      *)
(***************************************************************************)
SystolicTarget_Swapped(maxAmp) == DIASTOLIC_NUM * maxAmp
SystolicTarget(maxAmp) == SYSTOLIC_NUM * maxAmp
DiastolicTarget(maxAmp) == DIASTOLIC_NUM * maxAmp
PulseDt(pStart, pEnd) == (pEnd - pStart) % UINT_MOD
HeartRateShown(dt) == dt > 0

calculateBloodPressure(rd, maxAmp, mai, pStart, pEnd) ==
  LET sys == findIndexAtAmplitude(rd, mai, SystolicTarget(maxAmp), TRUE)
      dia == findIndexAtAmplitude(rd, mai, DiastolicTarget(maxAmp), FALSE)
      dt  == PulseDt(pStart, pEnd)
  IN  [map |-> PressureAt(rd, mai),
       systolic |-> PressureAt(rd, sys.index),
       diastolic |-> PressureAt(rd, dia.index),
       systolicIndex |-> sys.index,
       diastolicIndex |-> dia.index,
       reads |-> sys.reads \cup dia.reads \cup {mai},
       hrShown |-> HeartRateShown(dt),
       hrDt |-> dt]

NoReport ==
  [map |-> 0, systolic |-> 0, diastolic |-> 0, systolicIndex |-> 0,
   diastolicIndex |-> 0, reads |-> {}, hrShown |-> FALSE, hrDt |-> 0]

(***************************************************************************)
(* History: the Reading a block of WINDOW_SIZE samples <<pressure adc,     *)
(* oscillometric adc>> stands for, computed from the block alone.          *)
(***************************************************************************)
SetMax(S) == CHOOSE x \in S : \A y \in S : y <= x
SetMin(S) == CHOOSE x \in S : \A y \in S : x <= y
FirstAt(b, v) == SetMin({k \in 1 .. Len(b) : b[k][2] = v})
ReadingOf(b) ==
  LET hi == SetMax({b[k][2] : k \in 1 .. Len(b)})
      lo == SetMin({b[k][2] : k \in 1 .. Len(b)})
  IN  [amplitude |-> Volts(hi) - Volts(lo),
       pressure |-> (MmHg(b[FirstAt(b, hi)][1]) + MmHg(b[FirstAt(b, lo)][1]))
                       \div HALF]

(***************************************************************************)
(* State after the globals' initialisers and setup()                       *)
(***************************************************************************)
ZeroReading == [amplitude |-> 0, pressure |-> 0]
\* history of the peak timestamps: the full clock and the sample number of
\* the last write of each, and the number of writes
NoStamp ==
  [startAt |-> ULong(0, 0), endAt |-> ULong(0, 0), startSample |-> 0,
   endSample |-> 0, startWrites |-> 0, endWrites |-> 0]
NoRead == [button |-> FALSE, pressureAdc |-> 0]

InitGlobals ==
  /\ pumpOn = FALSE
  /\ thresholdReached = FALSE
  /\ readings = [i \in Indices |-> ZeroReading]
  /\ oscillometricBuffer = [i \in 0 .. (WINDOW_SIZE - 1) |-> 0]
  /\ pressureBuffer = [i \in 0 .. (WINDOW_SIZE - 1) |-> 0]
  /\ bufferIndex = 0
  /\ secondCounter = 0
  /\ maxVal = InitMaxVal
  /\ minVal = InitMinVal
  /\ maxPressure = 0
  /\ minPressure = 0
  /\ maxAmplitude = 0
  /\ maxAmplitudeIndex = 0
  /\ currentState = WAITING_FOR_SIGNAL
  /\ stateTimer = ULong(0, 0)
  /\ sampleTimer = ULong(0, 0)
  /\ oscillationState = FALLING_STATE
  /\ prevOscillometric = 0
  /\ numPeaks = 0
  /\ pulseStart = 0
  /\ pulseEnd = 0


InitRest ==
  /\ InitGlobals
  /\ transistorPin = LOW
  /\ report = NoReport
  /\ calcCalls = 0
  /\ now = ULong(0, 0)
  /\ wave \in Waves
  /\ nSamples = 0
  /\ block = <<>>
  /\ expected = <<>>
  /\ donePolls = 0
  /\ stamped = NoStamp
  /\ lastRead = NoRead

Init == InitRest /\ deviations = 0

(***************************************************************************)
(* loop(): pump control                                                    *)
(***************************************************************************)
PumpRequested_ButtonOnly(button) == button
PumpRequested(button) == pumpOn \/ button
CutoffReached(button, adcP) == PumpRequested(button) /\ adcP > PUMP_CUTOFF
ThresholdAfter(button, adcP) == thresholdReached \/ CutoffReached(button, adcP)

PumpControl(button, adcP) ==
  /\ transistorPin' = IF PumpRequested(button) THEN HIGH ELSE LOW
  /\ pumpOn' = (PumpRequested(button) /\ ~CutoffReached(button, adcP))
  /\ thresholdReached' = ThresholdAfter(button, adcP)

(***************************************************************************)
(* loop(): the state machine                                               *)
(***************************************************************************)
DelayOver_Early(t) == ULongAtLeast(ULongMinus(t, stateTimer), SAMPLE_INTERVAL)
DelayOver(t) == ULongAtLeast(ULongMinus(t, stateTimer), INITIAL_DELAY)
SampleDue_Strict(t) ==
  ULongAtLeast(ULongMinus(t, sampleTimer), SAMPLE_INTERVAL + 1)
SampleDue(t) == ULongAtLeast(ULongMinus(t, sampleTimer), SAMPLE_INTERVAL)

samplingVars == <<readings, oscillometricBuffer, pressureBuffer, bufferIndex,
                  secondCounter, maxVal, minVal, maxPressure, minPressure,
                  maxAmplitude, maxAmplitudeIndex, oscillationState,
                  prevOscillometric, numPeaks, pulseStart, pulseEnd>>
historyVars == <<nSamples, block, expected, stamped>>

\* the state each transition assigns to currentState
AfterThreshold_Skips == PROCESSING_SIGNAL
AfterThreshold == DELAY_AFTER_THRESHOLD
AfterDelay == PROCESSING_SIGNAL
AfterCollection_Stays == PROCESSING_SIGNAL
AfterCollection == COMPLETE

CaseWaiting(button, adcP, t) ==
  /\ currentState = WAITING_FOR_SIGNAL
  /\ IF ThresholdAfter(button, adcP)
     THEN /\ currentState' = AfterThreshold
          /\ stateTimer' = t
     ELSE UNCHANGED <<currentState, stateTimer>>
  /\ now' = t
  /\ UNCHANGED <<sampleTimer, samplingVars, report, calcCalls, historyVars,
                 wave, donePolls>>

CaseDelay(t) ==
  /\ currentState = DELAY_AFTER_THRESHOLD
  /\ IF DelayOver(t)
     THEN /\ currentState' = AfterDelay
          /\ sampleTimer' = t
     ELSE UNCHANGED <<currentState, sampleTimer>>
  /\ now' = t
  /\ UNCHANGED <<stateTimer, samplingVars, report, calcCalls, historyVars,
                 wave, donePolls>>

CaseEarly(t) ==
  /\ currentState = PROCESSING_SIGNAL
  /\ ~SampleDue(t)
  /\ now' = t
  /\ UNCHANGED <<currentState, stateTimer, sampleTimer, samplingVars, report,
                 calcCalls, historyVars, wave, donePolls>>

\* peak detection
PeakSeen_OrEqual(value) ==
  oscillationState = RISING_STATE /\ prevOscillometric >= value
PeakSeen(value) ==
  oscillationState = RISING_STATE /\ prevOscillometric > value
RiseSeen(value) ==
  oscillationState # RISING_STATE /\ prevOscillometric < value
PeaksAfter(value) == IF PeakSeen(value) THEN numPeaks + 1 ELSE numPeaks
Stamp(t) == ULongToUInt(t)
\* the peak counts at which the timestamps are taken
IsPeakStart_FromThen(peaks) == peaks >= PEAK_START
IsPeakStart(peaks) == peaks = PEAK_START
IsPeakEnd(peaks) == peaks = PEAK_END

\* min/max tracking of the window
NewMax_OrEqual(value) == value >= maxVal
NewMax(value) == value > maxVal
NewMin(value) == value < minVal
MaxValAfter(value) == IF NewMax(value) THEN value ELSE maxVal
MinValAfter(value) == IF NewMin(value) THEN value ELSE minVal
MaxPressureAfter(value, mmHg) == IF NewMax(value) THEN mmHg ELSE maxPressure
MinPressureAfter(value, mmHg) == IF NewMin(value) THEN mmHg ELSE minPressure

WindowFull_EverySample(index) == index >= 1
WindowFull(index) == index >= WINDOW_SIZE
TotalSamples == WINDOW_SIZE * TOTAL_SECONDS
ReadingSlot_Previous == IF secondCounter > 0 THEN secondCounter - 1 ELSE 0
ReadingSlot == secondCounter
IsNewMax_AnyWindow(peakToPeak, maxAmp, second) == peakToPeak > maxAmp
IsNewMax(peakToPeak, maxAmp, second) == peakToPeak > maxAmp /\ second > 0
NewMaxAmplitude_OrEqual(peakToPeak) ==
  peakToPeak >= maxAmplitude /\ secondCounter > 0
NewMaxAmplitude(peakToPeak) == IsNewMax(peakToPeak, maxAmplitude, secondCounter)
SecondsAfter == secondCounter + 1
AllCollected_Strict(seconds) == seconds > TOTAL_SECONDS
AllCollected(seconds) == seconds >= TOTAL_SECONDS

\* the case of the switch that samples
InProcessing_OrComplete == currentState \in {PROCESSING_SIGNAL, COMPLETE}
InProcessing == currentState = PROCESSING_SIGNAL
\* the values the extremes take when a window is closed
MaxValReset_Keeps(value) == MaxValAfter(value)
MaxValReset(value) == InitMaxVal

CaseSample(adcP, adcO, t) ==
  LET value == Volts(adcO)
      mmHg == MmHg(adcP)
      peakToPeak == MaxValAfter(value) - MinValAfter(value)
      avgPressure ==
        (MaxPressureAfter(value, mmHg) + MinPressureAfter(value, mmHg))
          \div HALF
      blockNow == Append(block, <<adcP, adcO>>)
  IN
  /\ InProcessing
  /\ SampleDue(t)
  \* peak detection for heart rate
  /\ oscillationState' = IF PeakSeen(value) THEN FALLING_STATE
                         ELSE IF RiseSeen(value) THEN RISING_STATE
                         ELSE oscillationState
  /\ numPeaks' = PeaksAfter(value)
  /\ pulseStart' = IF PeakSeen(value) /\ IsPeakStart(PeaksAfter(value))
                   THEN Stamp(t) ELSE pulseStart
  /\ pulseEnd' = IF PeakSeen(value) /\ IsPeakEnd(PeaksAfter(value))
                 THEN Stamp(t) ELSE pulseEnd
  /\ prevOscillometric' = value
  /\ sampleTimer' = t
  \* store samples
  /\ pressureBuffer' = [pressureBuffer EXCEPT ![bufferIndex] = mmHg]
  /\ oscillometricBuffer' = [oscillometricBuffer EXCEPT ![bufferIndex] = value]
  \* min/max of this window
  /\ maxPressure' = MaxPressureAfter(value, mmHg)
  /\ minPressure' = MinPressureAfter(value, mmHg)
  /\ IF WindowFull(bufferIndex + 1)
     THEN /\ readings' = [readings EXCEPT ![ReadingSlot] =
                            [amplitude |-> peakToPeak, pressure |-> avgPressure]]
          /\ IF NewMaxAmplitude(peakToPeak)
             THEN /\ maxAmplitude' = peakToPeak
                  /\ maxAmplitudeIndex' = secondCounter
             ELSE UNCHANGED <<maxAmplitude, maxAmplitudeIndex>>
          /\ bufferIndex' = 0
          /\ maxVal' = MaxValReset(value)
          /\ minVal' = InitMinVal
          /\ secondCounter' = SecondsAfter
          /\ IF AllCollected(SecondsAfter)
             THEN /\ report' = calculateBloodPressure(readings', maxAmplitude',
                                 maxAmplitudeIndex', pulseStart', pulseEnd')
                  /\ calcCalls' = calcCalls + 1
                  /\ currentState' = AfterCollection
             ELSE UNCHANGED <<report, calcCalls, currentState>>
     ELSE /\ bufferIndex' = bufferIndex + 1
          /\ maxVal' = MaxValAfter(value)
          /\ minVal' = MinValAfter(value)
          /\ UNCHANGED <<readings, maxAmplitude, maxAmplitudeIndex,
                         secondCounter, report, calcCalls, currentState>>
  \* clock and history
  /\ now' = t
  /\ nSamples' = nSamples + 1
  /\ stamped' =
       LET starts == PeakSeen(value) /\ IsPeakStart(PeaksAfter(value))
           ends   == PeakSeen(value) /\ IsPeakEnd(PeaksAfter(value))
       IN  [startAt |-> IF starts THEN t ELSE stamped.startAt,
            startSample |-> IF starts THEN nSamples + 1 ELSE stamped.startSample,
            startWrites |-> stamped.startWrites + (IF starts THEN 1 ELSE 0),
            endAt |-> IF ends THEN t ELSE stamped.endAt,
            endSample |-> IF ends THEN nSamples + 1 ELSE stamped.endSample,
            endWrites |-> stamped.endWrites + (IF ends THEN 1 ELSE 0)]
  /\ IF Len(blockNow) = WINDOW_SIZE
     THEN /\ block' = <<>>
          /\ expected' = Append(expected, ReadingOf(blockNow))
     ELSE /\ block' = blockNow
          /\ UNCHANGED expected
  /\ UNCHANGED <<stateTimer, donePolls>>

CaseComplete(t) ==
  /\ currentState = COMPLETE
  /\ donePolls < MaxDonePolls
  /\ donePolls' = donePolls + 1
  /\ now' = ULongPlus(t, COMPLETE_DELAY)
  /\ UNCHANGED <<currentState, stateTimer, sampleTimer, samplingVars, report,
                 calcCalls, historyVars, wave>>

(***************************************************************************)
(* The polls.  Every poll reads the button, the clock and both analog      *)
(* inputs.  The nominal run polls with the clock unchanged or one sample   *)
(* interval later, keeps the waveform it started with and leaves the       *)
(* button alone once the threshold was reached; a behaviour may deviate    *)
(* from it MaxDeviations times.                                            *)
(***************************************************************************)
\* millis() shortly before the 32-bit counter wraps: the sketch may wait for
\* the button for any time
WrapEve ==
  ULong(UINT_MOD - 1, UINT_MOD - (INITIAL_DELAY + WINDOW_SIZE * SAMPLE_INTERVAL))

\* millis() one sample interval before the wrap: the settling delay spans it
DelayEve == ULong(UINT_MOD - 1, UINT_MOD - SAMPLE_INTERVAL)
\* a poll that comes DtLate after one full turn of the low 16 bits
LapLater(t) == ULongPlus(ULong((t.hi + 1) % UINT_MOD, t.lo), DtLate)

NominalClocks ==
  IF currentState \in {DELAY_AFTER_THRESHOLD, PROCESSING_SIGNAL}
  THEN {now, ULongPlus(now, SAMPLE_INTERVAL)}
  ELSE {now}
OddClocks ==
  IF currentState = COMPLETE THEN {}
  ELSE {ULongPlus(now, DtEarly), ULongPlus(now, DtLate)}
         \cup (IF currentState = WAITING_FOR_SIGNAL
               THEN {WrapEve, DelayEve} ELSE {})
         \cup (IF currentState = PROCESSING_SIGNAL
               THEN {LapLater(now)} ELSE {})
Clocks == NominalClocks \cup OddClocks

ButtonDeviates(button) ==
  button /\ currentState \in {DELAY_AFTER_THRESHOLD, PROCESSING_SIGNAL}
WaveDeviates(w) == w # wave
WaveMayChange ==
  /\ nSamples % WINDOW_SIZE = 0
  /\ nSamples \div WINDOW_SIZE \in 1 .. MaxChangeWindow
Cost(button, t, w) ==
  (IF ButtonDeviates(button) THEN 1 ELSE 0)
    + (IF t \in NominalClocks THEN 0 ELSE 1)
    + (IF WaveDeviates(w) THEN 1 ELSE 0)
Spend(button, t, w) ==
  /\ deviations + Cost(button, t, w) <= MaxDeviations
  /\ deviations' = deviations + Cost(button, t, w)

Reads(button, adcP) == lastRead' = [button |-> button, pressureAdc |-> adcP]

PollWaiting ==
  \E button \in BOOLEAN, adcP \in {CuffBelow, CuffAbove}, t \in Clocks :
    /\ Spend(button, t, wave)
    /\ Reads(button, adcP)
    /\ PumpControl(button, adcP)
    /\ CaseWaiting(button, adcP, t)

PollDelay ==
  \E button \in BOOLEAN, adcP \in {CuffBelow, CuffAbove}, t \in Clocks :
    /\ Spend(button, t, wave)
    /\ Reads(button, adcP)
    /\ PumpControl(button, adcP)
    /\ CaseDelay(t)

PollEarly ==
  \E button \in BOOLEAN, t \in Clocks :
    /\ Spend(button, t, wave)
    /\ Reads(button, CuffAt(nSamples))
    /\ PumpControl(button, CuffAt(nSamples))
    /\ CaseEarly(t)

PollSample ==
  \E button \in BOOLEAN, t \in Clocks, w \in Waves :
    /\ WaveDeviates(w) => WaveMayChange
    /\ Spend(button, t, w)
    /\ wave' = w
    /\ Reads(button, CuffAt(nSamples))
    /\ PumpControl(button, CuffAt(nSamples))
    /\ CaseSample(CuffAt(nSamples), OscAt(w, nSamples), t)

PollComplete ==
  \E button \in BOOLEAN, adcP \in {CuffBelow, CuffAbove}, t \in Clocks :
    /\ Spend(button, t, wave)
    /\ Reads(button, adcP)
    /\ PumpControl(button, adcP)
    /\ CaseComplete(t)

Next == PollWaiting \/ PollDelay \/ PollEarly \/ PollSample \/ PollComplete

Spec == Init /\ [][Next]_vars

(***************************************************************************)
(* loop() is called again and again and the millisecond counter runs: a    *)
(* poll that reads a later clock is always taken again.                    *)
(***************************************************************************)
LaterPoll == (PollDelay \/ PollEarly \/ PollSample) /\ now' # now
SpecFair == Init /\ [][Next]_vars /\ WF_vars(LaterPoll)

(***************************************************************************)
(* calculateBloodPressure on its own: the Reading Store is drawn from the  *)
(* stores a run can leave (a base amplitude with up to two windows of      *)
(* another amplitude, pressures falling from window to window), with       *)
(* maxAmplitude and maxAmplitudeIndex as loop() accumulates them, and the  *)
(* call at the end of the last window is the only step.                    *)
(***************************************************************************)
Amplitudes == {0, 5, 20, 60, 100}
BaseAmplitudes == {0, 5, 50}
StorePressure(i) == MmHg(CuffTop - i * WINDOW_SIZE) - MmHg(1) \div HALF

StoreOf(base, i, ai, j, aj) ==
  [k \in Indices |->
     [amplitude |-> IF k = j THEN aj ELSE IF k = i THEN ai ELSE base,
      pressure |-> StorePressure(k)]]

\* maxAmplitude and maxAmplitudeIndex after windows 0 .. k - 1 were stored
RECURSIVE RunningMax(_, _)
RunningMax(rd, k) ==
  IF k = 0 THEN [amplitude |-> 0, index |-> 0]
  ELSE CHOOSE r \in
         {IF IsNewMax(rd[k - 1].amplitude, m.amplitude, k - 1)
          THEN [amplitude |-> rd[k - 1].amplitude, index |-> k - 1]
          ELSE m : m \in {RunningMax(rd, k - 1)}} : TRUE

\* peak timestamps at the call: none recorded, or the 15th peak at 1000 ms
\* and the 16th at 1600 ms
NoPeaks == [numPeaks |-> 0, pulseStart |-> 0, pulseEnd |-> 0, stamped |-> NoStamp]
TwoPeaks ==
  [numPeaks |-> PEAK_END, pulseStart |-> 1000, pulseEnd |-> 1600,
   stamped |-> [startAt |-> ULong(0, 1000), endAt |-> ULong(0, 1600),
                startSample |-> 2 * PEAK_START, endSample |-> 2 * PEAK_END,
                startWrites |-> 1, endWrites |-> 1]]
PeakTimings == {NoPeaks, TwoPeaks}

InitAnalyzer ==
  /\ \E tm \in PeakTimings :
       /\ numPeaks = tm.numPeaks
       /\ pulseStart = tm.pulseStart
       /\ pulseEnd = tm.pulseEnd
       /\ stamped = tm.stamped
  /\ \E base \in BaseAmplitudes, i \in Indices, j \in Indices,
        ai \in Amplitudes, aj \in Amplitudes :
       /\ i <= j
       /\ readings = StoreOf(base, i, ai, j, aj)
       /\ maxAmplitude = RunningMax(readings, TOTAL_SECONDS).amplitude
       /\ maxAmplitudeIndex = RunningMax(readings, TOTAL_SECONDS).index
  /\ secondCounter = TOTAL_SECONDS
  /\ currentState = PROCESSING_SIGNAL
  /\ pumpOn = FALSE
  /\ thresholdReached = TRUE
  /\ oscillometricBuffer = [i \in 0 .. (WINDOW_SIZE - 1) |-> 0]
  /\ pressureBuffer = [i \in 0 .. (WINDOW_SIZE - 1) |-> 0]
  /\ bufferIndex = 0
  /\ maxVal = InitMaxVal
  /\ minVal = InitMinVal
  /\ maxPressure = 0
  /\ minPressure = 0
  /\ stateTimer = ULong(0, 0)
  /\ sampleTimer = ULong(0, 0)
  /\ oscillationState = FALLING_STATE
  /\ prevOscillometric = 0
  /\ transistorPin = LOW
  /\ report = NoReport
  /\ calcCalls = 0
  /\ now = ULong(0, 0)
  /\ wave = "flat"
  /\ nSamples = TotalSamples
  /\ block = <<>>
  /\ expected = <<>>
  /\ deviations = 0
  /\ donePolls = 0
  /\ lastRead = NoRead

\* what calculateBloodPressure and findPressureAtAmplitude do to the globals
\* they read: nothing
AnalyzerFrame_ConsumesMaximum ==
  /\ readings' = [readings EXCEPT ![maxAmplitudeIndex] = ZeroReading]
  /\ UNCHANGED <<maxAmplitude, maxAmplitudeIndex, numPeaks, pulseStart,
                 pulseEnd>>
AnalyzerFrame ==
  UNCHANGED <<readings, maxAmplitude, maxAmplitudeIndex, numPeaks, pulseStart,
              pulseEnd>>
otherVars == <<pumpOn, thresholdReached, oscillometricBuffer, pressureBuffer,
               bufferIndex, secondCounter, maxVal, minVal, maxPressure,
               minPressure, stateTimer, sampleTimer, oscillationState,
               prevOscillometric, transistorPin, envVars>>

Analyze ==
  /\ currentState = PROCESSING_SIGNAL
  /\ AllCollected(secondCounter)
  /\ report' = calculateBloodPressure(readings, maxAmplitude,
                  maxAmplitudeIndex, pulseStart, pulseEnd)
  /\ calcCalls' = calcCalls + 1
  /\ currentState' = AfterCollection
  /\ AnalyzerFrame
  /\ UNCHANGED otherVars

SpecAnalyzer == InitAnalyzer /\ [][Analyze]_vars

(***************************************************************************)
(* calculateBloodPressure called again on the state it left.               *)
(***************************************************************************)
MaxCalls == 2

Reanalyze ==
  /\ currentState = COMPLETE
  /\ calcCalls < MaxCalls
  /\ report' = calculateBloodPressure(readings, maxAmplitude,
                  maxAmplitudeIndex, pulseStart, pulseEnd)
  /\ calcCalls' = calcCalls + 1
  /\ AnalyzerFrame
  /\ UNCHANGED <<currentState, otherVars>>

SpecReanalyze == InitAnalyzer /\ [][Analyze \/ Reanalyze]_vars

(***************************************************************************)
(* Properties                                                              *)
(***************************************************************************)
PhaseRank(s) ==
  CASE s = WAITING_FOR_SIGNAL -> 0
    [] s = DELAY_AFTER_THRESHOLD -> 1
    [] s = PROCESSING_SIGNAL -> 2
    [] OTHER -> 3
Done == currentState = COMPLETE

\* C1: every poll leaves the phase where it is or moves it to the next one of
\* WAITING_FOR_SIGNAL, DELAY_AFTER_THRESHOLD, PROCESSING_SIGNAL, COMPLETE,
\* and no poll leaves COMPLETE.
C1_PhaseOrder ==
  [][/\ PhaseRank(currentState') \in
          {PhaseRank(currentState), PhaseRank(currentState) + 1}
     /\ Done => Done']_vars
\* the button was pressed and the pump restarted after COMPLETE was reached
C1_Witness == Done /\ donePolls = MaxDonePolls /\ pumpOn /\ transistorPin = HIGH

\* C2: every Reading stored so far equals the Reading of its own block of
\* WINDOW_SIZE consecutive samples, in order, at every later time; in
\* COMPLETE there are TOTAL_SECONDS of them.
C2_ReadingsInOrder ==
  /\ secondCounter = Len(expected)
  /\ \A i \in 0 .. (Len(expected) - 1) : readings[i] = expected[i + 1]
  /\ Done => (Len(expected) = TOTAL_SECONDS /\ block = <<>>)
C2_Witness ==
  /\ Done
  /\ readings[0].amplitude # readings[1].amplitude
  /\ \A i \in Indices : \A j \in Indices :
       i < j => readings[i].pressure > readings[j].pressure

\* C3: the phase is WAITING_FOR_SIGNAL as long as the threshold was not
\* reached; once it was, COMPLETE is eventually reached; and COMPLETE is
\* reached after exactly WINDOW_SIZE * TOTAL_SECONDS processed samples.
C3_RunsToCompletion ==
  /\ [](~thresholdReached => currentState = WAITING_FOR_SIGNAL)
  /\ (thresholdReached ~> Done)
  /\ [](Done => nSamples = TotalSamples)
C3_Witness == Done /\ nSamples = TotalSamples /\ deviations > 0

\* C4 as stated: in COMPLETE maxAmplitudeIndex is not 0.
C4_NeverZero == Done => maxAmplitudeIndex # 0
\* C4 amended: in COMPLETE maxAmplitudeIndex is 0 exactly when no Reading
\* after Reading 0 has a positive amplitude, and then maxAmplitude is 0;
\* Reading 0 is never selected, even when its amplitude is the largest.
C4_ZeroOnlyWhenFlat ==
  Done =>
    /\ maxAmplitudeIndex \in Indices
    /\ maxAmplitudeIndex = 0 <=>
         \A i \in Indices \ {0} : readings[i].amplitude <= 0
    /\ maxAmplitudeIndex = 0 => maxAmplitude = 0
C4_Witness ==
  /\ Done
  /\ maxAmplitudeIndex # 0
  /\ \A i \in Indices \ {0} : readings[0].amplitude > readings[i].amplitude

\* C5: in COMPLETE the MAP printed is the pressure of a Reading whose
\* amplitude is at least the amplitude of every stored Reading.
C5_MapAtMaximum ==
  Done =>
    \E i \in Indices :
      /\ report.map = readings[i].pressure
      /\ \A j \in Indices : readings[i].amplitude >= readings[j].amplitude

Analyzed == calcCalls > 0
Distance(i, num) == Abs(FRAC_DEN * readings[i].amplitude - num * maxAmplitude)
Closest(range, num) ==
  {i \in range : \A k \in range : Distance(i, num) <= Distance(k, num)}
UpToMax == 0 .. maxAmplitudeIndex
FromMax == maxAmplitudeIndex .. (TOTAL_SECONDS - 1)

\* C6: the backward search selects an index in 0 .. maxAmplitudeIndex, the
\* forward search one in maxAmplitudeIndex .. TOTAL_SECONDS - 1, and every
\* index of readings[] the analyzer reads is in 0 .. TOTAL_SECONDS - 1.
C6_SearchInRange ==
  Analyzed =>
    /\ report.systolicIndex \in UpToMax
    /\ report.diastolicIndex \in FromMax
    /\ report.reads \subseteq Indices
    /\ UpToMax \cup FromMax \subseteq report.reads
C6_Witness ==
  /\ Analyzed
  /\ report.systolicIndex < maxAmplitudeIndex
  /\ report.diastolicIndex > maxAmplitudeIndex

\* the store of C7: amplitude 5 everywhere but 20 at index 10
Store7 ==
  \A k \in Indices : readings[k].amplitude = IF k = 10 THEN 20 ELSE 5
Maximum7 ==
  /\ maxAmplitudeIndex = 10
  /\ maxAmplitude = 20
  /\ SystolicTarget(maxAmplitude) = 11 * FRAC_DEN
  /\ DiastolicTarget(maxAmplitude) = 15 * FRAC_DEN

\* C7 as stated: on that store the maximum is 20 at index 10, the thresholds
\* are 11 and 15, SBP is the pressure of Reading 9 and DBP that of Reading 11.
C7_NearestOnEachSide ==
  (Analyzed /\ Store7) =>
    /\ Maximum7
    /\ report.systolic = readings[9].pressure
    /\ report.diastolic = readings[11].pressure
\* C7 amended: SBP is the pressure of Reading 9 and DBP the pressure of
\* Reading 10, the maximum itself (|20 - 15| = 5 is less than |5 - 15| = 10),
\* which is not the pressure of Reading 11.
C7_MaximumIsDiastolic ==
  (Analyzed /\ Store7) =>
    /\ Maximum7
    /\ report.systolic = readings[9].pressure
    /\ report.diastolic = readings[10].pressure
    /\ report.diastolic # readings[11].pressure
C7_Witness == Analyzed /\ Store7 /\ report.systolicIndex = 9

\* C8: SBP is the pressure of the Reading at the largest index of
\* 0 .. maxAmplitudeIndex whose amplitude is closest to 0.55 maxAmplitude,
\* DBP that of the Reading at the smallest index of
\* maxAmplitudeIndex .. TOTAL_SECONDS - 1 closest to 0.75 maxAmplitude.
C8_ClosestMatch ==
  Analyzed =>
    /\ report.systolicIndex = SetMax(Closest(UpToMax, SYSTOLIC_NUM))
    /\ report.systolic = readings[SetMax(Closest(UpToMax, SYSTOLIC_NUM))].pressure
    /\ report.diastolicIndex = SetMin(Closest(FromMax, DIASTOLIC_NUM))
    /\ report.diastolic = readings[SetMin(Closest(FromMax, DIASTOLIC_NUM))].pressure
\* both searches meet a tie, the backward one between different amplitudes
C8_Witness ==
  /\ Analyzed
  /\ report.systolicIndex < maxAmplitudeIndex
  /\ \E a \in Closest(UpToMax, SYSTOLIC_NUM) :
       \E b \in Closest(UpToMax, SYSTOLIC_NUM) :
          readings[a].amplitude # readings[b].amplitude
  /\ Cardinality(Closest(FromMax, DIASTOLIC_NUM)) > 1

\* C9: when all Readings have the same amplitude, SBP, DBP and MAP are all
\* the pressure of Reading maxAmplitudeIndex.
SameAmplitudes ==
  \A i \in Indices : readings[i].amplitude = readings[0].amplitude
C9_FlatEnvelope ==
  (Done /\ SameAmplitudes) =>
    /\ report.systolicIndex = maxAmplitudeIndex
    /\ report.diastolicIndex = maxAmplitudeIndex
    /\ report.systolic = readings[maxAmplitudeIndex].pressure
    /\ report.diastolic = readings[maxAmplitudeIndex].pressure
    /\ report.map = readings[maxAmplitudeIndex].pressure
C9_Witness ==
  /\ Done
  /\ SameAmplitudes
  /\ readings[0].amplitude > 0
  /\ readings[0].pressure # readings[maxAmplitudeIndex].pressure

\* C10: when calculateBloodPressure runs after fewer than PEAK_END peaks
\* were detected, no heart rate is printed.
C10_NoRateWithoutTiming == (Done /\ numPeaks < PEAK_END) => ~report.hrShown

Before(a, b) == a.hi < b.hi \/ (a.hi = b.hi /\ a.lo < b.lo)
BothStamped == stamped.startWrites > 0 /\ stamped.endWrites > 0

\* C11: when the 15th and the 16th peak were recorded at clock readings
\* t15 < t16, the heart rate printed is computed from t16 - t15 milliseconds
\* (60000 / (t16 - t15) BPM), whatever the clock readings are.
C11_RateFromPeakTimes ==
  (Done /\ BothStamped /\ Before(stamped.startAt, stamped.endAt)) =>
    /\ report.hrShown
    /\ ULong(0, report.hrDt) = ULongMinus(stamped.endAt, stamped.startAt)

\* every sample processed so far belongs to an alternating waveform
\* (high, low, high, low, ... from the first sample on)
Alternating ==
  /\ wave # "flat"
  /\ \A i \in 1 .. Len(expected) : expected[i].amplitude > 0

\* C12: numPeaks grows by one on a step exactly when that step processes a
\* sample strictly below the previous one while the detector is rising, and
\* a step from falling to rising leaves it alone; on an alternating input
\* that starts high, the k-th peak is counted on sample 2k, pulseStart is
\* written on sample 30 and pulseEnd on sample 32.
C12_OnePeakPerCycle ==
  /\ [][/\ numPeaks' \in {numPeaks, numPeaks + 1}
        /\ numPeaks' # numPeaks <=>
             /\ nSamples' = nSamples + 1
             /\ oscillationState = RISING_STATE
             /\ prevOscillometric' < prevOscillometric
        /\ (oscillationState = FALLING_STATE /\ oscillationState' = RISING_STATE)
             => numPeaks' = numPeaks]_vars
  /\ [](Alternating =>
          /\ numPeaks = nSamples \div 2
          /\ nSamples >= 2 * PEAK_START =>
               (stamped.startSample = 2 * PEAK_START /\ stamped.startWrites = 1)
          /\ nSamples >= 2 * PEAK_END =>
               (stamped.endSample = 2 * PEAK_END /\ stamped.endWrites = 1))
C12_Witness ==
  /\ Alternating
  /\ nSamples = 2 * PEAK_END
  /\ numPeaks = PEAK_END
  /\ oscillationState = FALLING_STATE

\* C13: calculateBloodPressure is called once per run, by the step that
\* stores the last of the TOTAL_SECONDS Readings and enters COMPLETE: not
\* before, and not again afterwards.
C13_AnalyzedOnce ==
  /\ [][calcCalls' # calcCalls =>
          /\ calcCalls' = calcCalls + 1
          /\ ~Done /\ Done'
          /\ secondCounter = TOTAL_SECONDS - 1
          /\ secondCounter' = TOTAL_SECONDS
          /\ readings'[TOTAL_SECONDS - 1] = expected'[TOTAL_SECONDS]]_vars
  /\ [](IF Done THEN calcCalls = 1 ELSE calcCalls = 0)
C13_Witness ==
  /\ Done
  /\ calcCalls = 1
  /\ donePolls = MaxDonePolls
  /\ readings[TOTAL_SECONDS - 1].amplitude > 0

C15_PumpCutsOff ==
  [][/\ ((pumpOn \/ lastRead'.button) /\ lastRead'.pressureAdc > PUMP_CUTOFF)
          => (~pumpOn' /\ thresholdReached')
     /\ (transistorPin = HIGH /\ lastRead.pressureAdc > PUMP_CUTOFF
          /\ ~lastRead'.button) => transistorPin' = LOW
     /\ thresholdReached => thresholdReached']_vars
\* the pump ran for some polls below the cutoff and was stopped by a poll
\* that did not read the button
C15_Witness ==
  /\ thresholdReached
  /\ ~pumpOn
  /\ transistorPin = HIGH
  /\ ~lastRead.button
  /\ lastRead.pressureAdc > PUMP_CUTOFF

\* the samples of the window just completed, as the buffers hold them
BufferIndices == 0 .. (WINDOW_SIZE - 1)
FirstIndexOf(buffer, v) == SetMin({k \in BufferIndices : buffer[k] = v})
WindowStored == secondCounter' = secondCounter + 1

\* C16: the Reading a step stores is computed from the WINDOW_SIZE samples
\* of its own window, which are the samples processed since the last
\* Reading was stored: its amplitude is their maximum minus their minimum
\* oscillometric value (not negative) and its pressure the midpoint of the
\* pressures sampled with the first maximum and with the first minimum.
C16_ReadingOfOwnWindow ==
  [][WindowStored =>
       LET osc == oscillometricBuffer'
           prs == pressureBuffer'
           hi  == SetMax({osc[k] : k \in BufferIndices})
           lo  == SetMin({osc[k] : k \in BufferIndices})
       IN  /\ Len(block) = WINDOW_SIZE - 1
           /\ \A k \in 1 .. Len(block) :
                 /\ osc[k - 1] = Volts(block[k][2])
                 /\ prs[k - 1] = MmHg(block[k][1])
           /\ osc[WINDOW_SIZE - 1] = prevOscillometric'
           /\ prs[WINDOW_SIZE - 1] = MmHg(lastRead'.pressureAdc)
           /\ readings'[secondCounter].amplitude = hi - lo
           /\ readings'[secondCounter].amplitude >= 0
           /\ HALF * readings'[secondCounter].pressure =
                 prs[FirstIndexOf(osc, hi)] + prs[FirstIndexOf(osc, lo)]]_vars
\* a window whose extremes lie inside those of the window before it
C16_Witness ==
  /\ secondCounter > 1
  /\ readings[0].amplitude > readings[1].amplitude
  /\ readings[1].amplitude > 0

\* milliseconds from one clock reading to a later one, modulo 2^32, for
\* readings less than two turns of the low 16 bits apart
Elapsed(from, to) ==
  ((to.hi - from.hi) % UINT_MOD) * UINT_MOD + to.lo - from.lo

\* C17: the step into DELAY_AFTER_THRESHOLD stores the clock it read; a step
\* from DELAY_AFTER_THRESHOLD to PROCESSING_SIGNAL reads a clock at least
\* INITIAL_DELAY ms later (modulo 2^32); no sample is processed before.
C17_SettlingDelay ==
  [][/\ (currentState = WAITING_FOR_SIGNAL /\ currentState' # currentState)
          => stateTimer' = now'
     /\ currentState = DELAY_AFTER_THRESHOLD =>
          /\ stateTimer' = stateTimer
          /\ nSamples = 0 /\ nSamples' = 0
          /\ currentState' = PROCESSING_SIGNAL =>
               Elapsed(stateTimer, now') >= INITIAL_DELAY]_vars
\* the delay spanned the wrap of the 32-bit clock
C17_Witness ==
  /\ currentState = PROCESSING_SIGNAL
  /\ stateTimer.hi = UINT_MOD - 1
  /\ sampleTimer.hi = 0
  /\ Elapsed(stateTimer, sampleTimer) >= INITIAL_DELAY

\* C18: in PROCESSING_SIGNAL a poll whose clock is at least SAMPLE_INTERVAL
\* (33 ms) after the clock of the last processed sample (of the entry into
\* the phase for the first one) processes exactly one sample, however late
\* it is; a poll that comes earlier changes no accumulator, peak detector,
\* timer or Reading Store variable.
C18_SampleWhenDue ==
  [][/\ (currentState = DELAY_AFTER_THRESHOLD /\ currentState' # currentState)
          => sampleTimer' = now'
     /\ currentState = PROCESSING_SIGNAL =>
          IF Elapsed(sampleTimer, now') >= 33
          THEN /\ nSamples' = nSamples + 1
               /\ sampleTimer' = now'
               /\ bufferIndex' = (bufferIndex + 1) % WINDOW_SIZE
               /\ oscillometricBuffer'[bufferIndex] = prevOscillometric'
          ELSE UNCHANGED <<samplingVars, historyVars, sampleTimer, stateTimer,
                           currentState, report, calcCalls>>]_vars
\* a poll came DtEarly after a processed sample and was ignored
C18_Witness ==
  /\ currentState = PROCESSING_SIGNAL
  /\ nSamples > 0
  /\ Elapsed(sampleTimer, now) = DtEarly

\* C19: a poll taken in WAITING_FOR_SIGNAL, DELAY_AFTER_THRESHOLD or
\* COMPLETE processes no sample: it leaves the window accumulator, the
\* buffers, the peak detector and the Reading Store as they are.
C19_NoSamplingElsewhere ==
  [][currentState # PROCESSING_SIGNAL =>
       /\ UNCHANGED <<maxVal, minVal, maxPressure, minPressure, bufferIndex>>
       /\ UNCHANGED <<oscillationState, prevOscillometric, numPeaks,
                      pulseStart, pulseEnd>>
       /\ UNCHANGED <<readings, secondCounter, maxAmplitude,
                      maxAmplitudeIndex>>
       /\ UNCHANGED <<oscillometricBuffer, pressureBuffer, nSamples>>]_vars
\* polls in COMPLETE read the button and a pressure above the cutoff
C19_Witness ==
  /\ Done
  /\ donePolls = MaxDonePolls
  /\ lastRead.button
  /\ lastRead.pressureAdc = CuffAbove
  /\ nSamples = TotalSamples

WindowStarts == nSamples % WINDOW_SIZE = 0 /\ ~Done

\* C20 as stated: before the first sample of every window maxVal and minVal
\* are at their sentinels, maxPressure and minPressure are 0 and the sample
\* count is 0.
C20_AccumulatorReset ==
  WindowStarts =>
    /\ maxVal = InitMaxVal
    /\ minVal = InitMinVal
    /\ maxPressure = 0
    /\ minPressure = 0
    /\ bufferIndex = 0
\* C20 amended: before the first sample of every window maxVal and minVal
\* are at their sentinels and the sample count is 0; maxPressure and
\* minPressure are 0 before window 0 only, and before a later window they
\* still hold the two pressures whose midpoint is the previous Reading.
C20_ExtremesReset ==
  WindowStarts =>
    /\ maxVal = InitMaxVal
    /\ minVal = InitMinVal
    /\ bufferIndex = 0
    /\ secondCounter = 0 => (maxPressure = 0 /\ minPressure = 0)
    /\ secondCounter > 0 =>
         maxPressure + minPressure = HALF * readings[secondCounter - 1].pressure
C20_Witness ==
  /\ WindowStarts
  /\ secondCounter > 0
  /\ maxPressure > minPressure
  /\ minPressure > 0

\* the Readings stored so far that can become the maximum, and the largest
\* amplitude among them
Candidates == 1 .. (secondCounter - 1)
LargestCandidate == SetMax({readings[i].amplitude : i \in Candidates} \cup {0})

\* C21: after k = secondCounter windows were stored, maxAmplitude is the
\* largest amplitude of Readings 1 .. k - 1 if that is positive and 0
\* otherwise, maxAmplitudeIndex is the smallest index of 1 .. k - 1 with
\* that positive amplitude, or 0 if there is none, Reading 0 changes
\* neither, and readings[maxAmplitudeIndex].amplitude = maxAmplitude
\* whenever maxAmplitudeIndex > 0.
C21_RunningMaximum ==
  /\ secondCounter \in 0 .. TOTAL_SECONDS
  /\ maxAmplitude = LargestCandidate
  /\ maxAmplitudeIndex =
       IF LargestCandidate > 0
       THEN SetMin({i \in Candidates : readings[i].amplitude = LargestCandidate})
       ELSE 0
  /\ secondCounter <= 1 => (maxAmplitude = 0 /\ maxAmplitudeIndex = 0)
  /\ maxAmplitudeIndex > 0 =>
       readings[maxAmplitudeIndex].amplitude = maxAmplitude
\* Reading 0 is larger than the maximum, which several later Readings attain
C21_Witness ==
  /\ Done
  /\ readings[0].amplitude > maxAmplitude
  /\ maxAmplitudeIndex = 1
  /\ readings[2].amplitude = maxAmplitude
  /\ maxAmplitude > 0

\* C22: between polls bufferIndex is in 0 .. WINDOW_SIZE - 1, secondCounter
\* in 0 .. TOTAL_SECONDS, the number of processed samples is
\* secondCounter * WINDOW_SIZE + bufferIndex, and secondCounter is
\* TOTAL_SECONDS exactly in COMPLETE; a step that processes a sample writes
\* the sample into both buffers at an index of 0 .. WINDOW_SIZE - 1, and a
\* step that stores a Reading writes it at an index of 0 .. TOTAL_SECONDS - 1.
C22_IndicesInRange ==
  /\ [](/\ bufferIndex \in BufferIndices
        /\ secondCounter \in 0 .. TOTAL_SECONDS
        /\ nSamples = secondCounter * WINDOW_SIZE + bufferIndex
        /\ secondCounter = TOTAL_SECONDS <=> Done)
  /\ [][nSamples' # nSamples =>
          /\ bufferIndex \in DOMAIN oscillometricBuffer
          /\ bufferIndex \in DOMAIN pressureBuffer
          /\ oscillometricBuffer'[bufferIndex] = prevOscillometric'
          /\ pressureBuffer'[bufferIndex] = MmHg(lastRead'.pressureAdc)
          /\ DOMAIN oscillometricBuffer' = BufferIndices
          /\ DOMAIN pressureBuffer' = BufferIndices
          /\ WindowStored =>
               /\ secondCounter \in DOMAIN readings
               /\ readings'[secondCounter] = expected'[Len(expected')]
               /\ DOMAIN readings' = Indices]_vars
\* the last slot of each array was written
C22_Witness ==
  /\ Done
  /\ bufferIndex = 0
  /\ oscillometricBuffer[WINDOW_SIZE - 1] = prevOscillometric
  /\ readings[TOTAL_SECONDS - 1].pressure > 0
  /\ nSamples = TOTAL_SECONDS * WINDOW_SIZE

\* C23: numPeaks never decreases and is not incremented by two consecutive
\* processed samples (an increment leaves the detector falling, and the
\* detector must rise again before the next one); pulseStart is written
\* only by the step that makes numPeaks 15 and pulseEnd only by the step
\* that makes it 16, each once, pulseEnd after pulseStart and at least two
\* processed samples later.
C23_StampsOnceInOrder ==
  /\ [][/\ numPeaks' >= numPeaks
        /\ numPeaks' # numPeaks =>
             (oscillationState = RISING_STATE /\ oscillationState' = FALLING_STATE)
        /\ (nSamples' # nSamples /\ oscillationState = FALLING_STATE) =>
             numPeaks' = numPeaks
        /\ (pulseStart' # pulseStart \/ stamped'.startWrites # stamped.startWrites)
             => (numPeaks = PEAK_START - 1 /\ numPeaks' = PEAK_START)
        /\ (pulseEnd' # pulseEnd \/ stamped'.endWrites # stamped.endWrites)
             => (numPeaks = PEAK_END - 1 /\ numPeaks' = PEAK_END)]_vars
  /\ [](/\ stamped.startWrites = (IF numPeaks >= PEAK_START THEN 1 ELSE 0)
        /\ stamped.endWrites = (IF numPeaks >= PEAK_END THEN 1 ELSE 0)
        /\ stamped.startWrites > 0 => pulseStart = stamped.startAt.lo
        /\ stamped.endWrites > 0 =>
             /\ pulseEnd = stamped.endAt.lo
             /\ stamped.endSample >= stamped.startSample + 2)
\* more peaks followed the 16th, and the timestamps differ
C23_Witness ==
  /\ numPeaks > PEAK_END
  /\ pulseStart # pulseEnd
  /\ stamped.endSample = stamped.startSample + 2

====
